---- MODULE Spec2Model ----
(***************************************************************************)
(* Model of findBestVoucher / calculateDiscount (src/main.go).             *)
(*                                                                         *)
(* One call of findBestVoucher is a set of goroutines: the calling         *)
(* goroutine (dispatch loop, then the range loop over resultChan, then the *)
(* return), one worker goroutine per voucher, and the closer goroutine     *)
(* (wg.Wait(); close(resultChan)).  Every channel operation, WaitGroup     *)
(* operation and mutex operation is a step of the model.                   *)
(*                                                                         *)
(* float64 amounts are fixed-point integers counting 1/Unit of a currency  *)
(* unit; the percentage product orderAmount * pct / 100 is kept exactly,   *)
(* as an integer counting 1/(100 * Unit).                                  *)
(***************************************************************************)
EXTENDS Integers, Sequences, FiniteSets, Bags, TLC

(***************************************************************************)
(* Bounds of the model.                                                    *)
(***************************************************************************)
\* Longest voucher list built freely from VoucherPool.
MaxLen == 2
\* The long lists hold WorkerPoolCap + Extra vouchers.
Extra == 1

(***************************************************************************)
(* Program constants and types.                                            *)
(***************************************************************************)
\* make(chan struct{}, 10)
WorkerPoolCap == 10
\* Fixed-point resolution of a float64 amount: Unit steps per currency unit.
Unit == 100

\* sql.NullFloat64 / sql.NullInt64
Null == [Valid |-> FALSE, Value |-> 0]
Some(x) == [Valid |-> TRUE, Value |-> x]

\* type Voucher struct (Code is only ever logged and is left out)
MkVoucher(id, min, amount, pct, max) ==
    [Id |-> id, MinOrderAmount |-> min, DiscountAmount |-> amount,
     DiscountPercentage |-> pct, MaxDiscountAmount |-> max]

\* Voucher{}
ZeroVoucher == MkVoucher(0, 0, Null, Null, Null)

ErrNil == "nil"
ErrMinimum == "order amount does not meet minimum requirement"
ErrConfig == "invalid voucher discount configuration"
ErrNoVoucher == "no applicable voucher found"

(***************************************************************************)
(* calculateDiscount                                                       *)
(***************************************************************************)
\* the floor left out
FloorMutNoFloor(raw) == raw \div 100

\* math.Floor of an amount given in 1/(100 * Unit), as a fixed-point amount
Floor(raw) == (raw \div (100 * Unit)) * Unit

\* the flat branch: discount = v.DiscountAmount.Float64
FlatDiscount(v) == v.DiscountAmount.Value * 100

\* the percentage branch without the clamp to MaxDiscountAmount
PercentageDiscountMutNoCap(v, orderAmount) ==
    orderAmount * v.DiscountPercentage.Value

\* the percentage branch, with the optional cap
PercentageDiscount(v, orderAmount) ==
    LET discount == orderAmount * v.DiscountPercentage.Value
    IN  IF v.MaxDiscountAmount.Valid /\ discount > v.MaxDiscountAmount.Value * 100
        THEN v.MaxDiscountAmount.Value * 100
        ELSE discount

\* the minimum never checked
BelowMinimumMutNever(v, orderAmount) == FALSE

\* the minimum itself rejected
BelowMinimumMutOrEqual(v, orderAmount) == orderAmount <= v.MinOrderAmount

\* orderAmount < v.MinOrderAmount
BelowMinimum(v, orderAmount) == orderAmount < v.MinOrderAmount

calculateDiscount(v, orderAmount) ==
    IF BelowMinimum(v, orderAmount)
    THEN [discount |-> 0, err |-> ErrMinimum]
    ELSE IF v.DiscountAmount.Valid
         THEN [discount |-> Floor(FlatDiscount(v)), err |-> ErrNil]
         ELSE IF v.DiscountPercentage.Valid
              THEN [discount |-> Floor(PercentageDiscount(v, orderAmount)),
                    err |-> ErrNil]
              ELSE [discount |-> 0, err |-> ErrConfig]

(***************************************************************************)
(* Inputs.                                                                 *)
(***************************************************************************)
\* orderAmount := 500.0
MainOrderAmount == 500 * Unit

\* {min 100, flat 50}: 50 at order 500
VFlat == MkVoucher(1, 100 * Unit, Some(50 * Unit), Null, Null)
\* {min 100, 20%, cap 90}: 100 capped to 90 at order 500
VCapped == MkVoucher(2, 100 * Unit, Null, Some(20), Some(90 * Unit))
\* {min 1000, flat 10}: not eligible at order 500
VHighMin == MkVoucher(3, 1000 * Unit, Some(10 * Unit), Null, Null)
\* neither a flat amount nor a percentage
VMalformed == MkVoucher(4, 0, Null, Null, Null)
\* {min 0, flat 0.50}: eligible, floored to 0
VHalf == MkVoucher(5, 0, Some(Unit \div 2), Null, Null)
\* {min 200, 10%, no cap}: 50 at order 500, a tie with VFlat
VTenPct == MkVoucher(6, 200 * Unit, Null, Some(10), Null)

VoucherPool == {VFlat, VCapped, VHighMin, VMalformed, VHalf, VTenPct}

\* vouchers repeated in the long lists: one eligible, one not
BulkPool == {VFlat, VHighMin}

RECURSIVE SeqsUpTo(_, _)
SeqsUpTo(S, n) ==
    IF n = 0 THEN {<<>>}
    ELSE LET shorter == SeqsUpTo(S, n - 1)
         IN  shorter \cup {Append(s, x) : s \in {t \in shorter : Len(t) = n - 1}, x \in S}

\* a list longer than the worker pool: one voucher repeated, then the best one
BulkLists ==
    {[k \in 1..(WorkerPoolCap + Extra) |->
         IF k = WorkerPoolCap + Extra THEN VCapped ELSE v] : v \in BulkPool}

VoucherLists == SeqsUpTo(VoucherPool, MaxLen) \cup BulkLists

OrderAmounts == {MainOrderAmount}

(***************************************************************************)
(* State.                                                                  *)
(***************************************************************************)
VARIABLES
    vouchers,      \* the vouchers argument
    orderAmount,   \* the orderAmount argument
    ctxDone,       \* the ctx argument: cancelled or past its deadline
    poolCap,       \* cap(workerPool)
    pc,            \* the calling goroutine: "dispatch", "range", "locked", "done"
    i,             \* index of the next voucher of the dispatch loop
    wg,            \* the WaitGroup counter
    slots,         \* len(workerPool): slots held
    poolClosed,    \* workerPool is closed (deferred close)
    workers,       \* bag of worker goroutines [v, pc]
    resultChan,    \* buffered results, oldest first
    closed,        \* resultChan is closed
    closer,        \* the closer goroutine: "idle", "wait", "fin"
    mu,            \* mu is locked
    result,        \* the range variable, <<>> when none is held
    bestVoucher,
    maxDiscount,
    ret,           \* what the call returned, NoRet before the return
    panicked,      \* a goroutine panicked (send on a closed channel)
    prev,          \* outcome of the previous call on the same arguments
    consumed,      \* history: bag of the results the range loop has received
    firstSeen,     \* history: score |-> the first voucher received with it
    calc           \* what a lone call of calculateDiscount returned

vars == <<vouchers, orderAmount, ctxDone, poolCap, pc, i, wg, slots, poolClosed,
          workers, resultChan, closed, closer, mu, result, bestVoucher,
          maxDiscount, ret, panicked, prev, consumed, firstSeen, calc>>

NoRet == [voucher |-> ZeroVoucher, discount |-> -1, err |-> "pending"]
NoPrev == [ret |-> NoRet, poolCap |-> 0]
NoCalc == [discount |-> -1, err |-> "pending"]

Worker(v, p) == [v |-> v, pc |-> p]
AddWorker(B, w) == B (+) SetToBag({w})
MoveWorker(B, w, p) == (B (-) SetToBag({w})) (+) SetToBag({Worker(w.v, p)})
\* number of worker goroutines at one of the positions ps
CountAt(ps) ==
    LET at == {w \in BagToSet(workers) : w.pc \in ps}
        RECURSIVE Sum(_)
        Sum(S) == IF S = {} THEN 0
                  ELSE LET w == CHOOSE x \in S : TRUE
                       IN  CopiesIn(w, workers) + Sum(S \ {w})
    IN  Sum(at)

(***************************************************************************)
(* The call: locals of findBestVoucher at its first statement.             *)
(***************************************************************************)
\* the capacities a call is run with: the program's, and a single slot
PoolCaps == {1, WorkerPoolCap}

Entry ==
    /\ pc = "dispatch"
    /\ i = 1
    /\ wg = 0
    /\ slots = 0
    /\ poolClosed = FALSE
    /\ workers = EmptyBag
    /\ resultChan = <<>>
    /\ closed = FALSE
    /\ closer = "idle"
    /\ mu = FALSE
    /\ result = <<>>
    /\ bestVoucher = ZeroVoucher
    /\ maxDiscount = 0
    /\ ret = NoRet
    /\ panicked = FALSE
    /\ consumed = EmptyBag
    /\ firstSeen = <<>>

Init ==
    /\ vouchers \in VoucherLists
    /\ orderAmount \in OrderAmounts
    /\ ctxDone = FALSE
    /\ poolCap = WorkerPoolCap
    /\ prev = NoPrev
    /\ calc = NoCalc
    /\ Entry

(***************************************************************************)
(* The dispatch loop.                                                      *)
(***************************************************************************)
\* workerPool <- struct{}{} goes through when the buffer has room
CanAcquireMutOffByOne(held, capacity) == held <= capacity

CanAcquire(held, capacity) == held < capacity

\* one iteration: wg.Add(1); workerPool <- struct{}{}; go func(v)
Dispatch ==
    /\ ~panicked
    /\ pc = "dispatch"
    /\ i <= Len(vouchers)
    /\ CanAcquire(slots, poolCap)
    /\ wg' = wg + 1
    /\ slots' = slots + 1
    /\ workers' = AddWorker(workers, Worker(vouchers[i], "eval"))
    /\ i' = i + 1
    /\ UNCHANGED <<calc, consumed, firstSeen,
                   vouchers, orderAmount, ctxDone, poolCap, pc, poolClosed,
                   resultChan, closed, closer, mu, result, bestVoucher,
                   maxDiscount, ret, panicked, prev>>

\* the loop is over: go func() { wg.Wait(); close(resultChan) }()
StartCloser ==
    /\ ~panicked
    /\ pc = "dispatch"
    /\ i > Len(vouchers)
    /\ closer' = "wait"
    /\ pc' = "range"
    /\ UNCHANGED <<calc, consumed, firstSeen,
                   vouchers, orderAmount, ctxDone, poolCap, i, wg, slots,
                   poolClosed, workers, resultChan, closed, mu, result,
                   bestVoucher, maxDiscount, ret, panicked, prev>>

(***************************************************************************)
(* A worker goroutine.                                                     *)
(***************************************************************************)
\* make(chan struct{...}, len(vouchers))
ResultChanCapMutPoolSize(vs) == IF Len(vs) > WorkerPoolCap THEN WorkerPoolCap ELSE Len(vs)

ResultChanCap(vs) == Len(vs)

\* calculateDiscount succeeded: resultChan <- {Voucher: v, Discount: discount}
WorkerSend(w) ==
    /\ ~panicked
    /\ w.pc = "eval"
    /\ LET r == calculateDiscount(w.v, orderAmount)
       IN  /\ r.err = ErrNil
           /\ IF closed
              THEN /\ panicked' = TRUE
                   /\ UNCHANGED <<resultChan, workers>>
              ELSE /\ Len(resultChan) < ResultChanCap(vouchers)
                   /\ resultChan' = Append(resultChan,
                                           [Voucher |-> w.v, Discount |-> r.discount])
                   /\ workers' = MoveWorker(workers, w, "release")
                   /\ UNCHANGED panicked
    /\ UNCHANGED <<calc, consumed, firstSeen,
                   vouchers, orderAmount, ctxDone, poolCap, pc, i, wg, slots,
                   poolClosed, closed, closer, mu, result, bestVoucher,
                   maxDiscount, ret, prev>>

\* the early return taken without the deferred release and wg.Done
WorkerSkipMutNoDefer(w) ==
    /\ ~panicked
    /\ w.pc = "eval"
    /\ calculateDiscount(w.v, orderAmount).err # ErrNil
    /\ workers' = MoveWorker(workers, w, "fin")
    /\ UNCHANGED <<calc, consumed, firstSeen,
                   vouchers, orderAmount, ctxDone, poolCap, pc, i, wg, slots,
                   poolClosed, resultChan, closed, closer, mu, result,
                   bestVoucher, maxDiscount, ret, panicked, prev>>

\* calculateDiscount failed: logger.Warn; return
WorkerSkip(w) ==
    /\ ~panicked
    /\ w.pc = "eval"
    /\ calculateDiscount(w.v, orderAmount).err # ErrNil
    /\ workers' = MoveWorker(workers, w, "release")
    /\ UNCHANGED <<calc, consumed, firstSeen,
                   vouchers, orderAmount, ctxDone, poolCap, pc, i, wg, slots,
                   poolClosed, resultChan, closed, closer, mu, result,
                   bestVoucher, maxDiscount, ret, panicked, prev>>

\* the slot never given back
WorkerReleaseMutKeepsSlot(w) ==
    /\ ~panicked
    /\ w.pc = "release"
    /\ workers' = MoveWorker(workers, w, "wgdone")
    /\ UNCHANGED <<calc, consumed, firstSeen, slots,
                   vouchers, orderAmount, ctxDone, poolCap, pc, i, wg,
                   poolClosed, resultChan, closed, closer, mu, result,
                   bestVoucher, maxDiscount, ret, panicked, prev>>

\* defer func() { <-workerPool }()
WorkerRelease(w) ==
    /\ ~panicked
    /\ w.pc = "release"
    /\ slots > 0 \/ poolClosed
    /\ slots' = IF slots > 0 THEN slots - 1 ELSE slots
    /\ workers' = MoveWorker(workers, w, "wgdone")
    /\ UNCHANGED <<calc, consumed, firstSeen,
                   vouchers, orderAmount, ctxDone, poolCap, pc, i, wg,
                   poolClosed, resultChan, closed, closer, mu, result,
                   bestVoucher, maxDiscount, ret, panicked, prev>>

\* defer wg.Done()
WorkerDone(w) ==
    /\ ~panicked
    /\ w.pc = "wgdone"
    /\ wg' = wg - 1
    /\ workers' = MoveWorker(workers, w, "fin")
    /\ UNCHANGED <<calc, consumed, firstSeen,
                   vouchers, orderAmount, ctxDone, poolCap, pc, i, slots,
                   poolClosed, resultChan, closed, closer, mu, result,
                   bestVoucher, maxDiscount, ret, panicked, prev>>

(***************************************************************************)
(* The closer goroutine.                                                   *)
(***************************************************************************)
\* wg.Wait() returns
WaitReturnsMutNoWait(counter) == TRUE

WaitReturns(counter) == counter = 0

\* wg.Wait(); close(resultChan)
CloseResults ==
    /\ ~panicked
    /\ closer = "wait"
    /\ WaitReturns(wg)
    /\ closed' = TRUE
    /\ closer' = "fin"
    /\ UNCHANGED <<calc, consumed, firstSeen,
                   vouchers, orderAmount, ctxDone, poolCap, pc, i, wg, slots,
                   poolClosed, workers, resultChan, mu, result, bestVoucher,
                   maxDiscount, ret, panicked, prev>>

(***************************************************************************)
(* The reducer: for result := range resultChan, and the return.            *)
(***************************************************************************)
\* if result.Discount > maxDiscount
BetterMutAlways(discount, best) == TRUE

BetterMutOrEqual(discount, best) == discount >= best

Better(discount, best) == discount > best

\* if maxDiscount == 0
NoWinnerMutNever(best) == FALSE

NoWinner(best) == best = 0

\* the receive without mu.Lock()
ReceiveMutNoLock ==
    /\ ~panicked
    /\ pc = "range"
    /\ Len(resultChan) > 0
    /\ result' = Head(resultChan)
    /\ resultChan' = Tail(resultChan)
    /\ pc' = "locked"
    /\ consumed' = consumed (+) SetToBag({Head(resultChan)})
    /\ firstSeen' = IF Head(resultChan).Discount \in DOMAIN firstSeen
                    THEN firstSeen
                    ELSE firstSeen @@
                         (Head(resultChan).Discount :> Head(resultChan).Voucher)
    /\ UNCHANGED <<calc, mu,
                   vouchers, orderAmount, ctxDone, poolCap, i, wg, slots,
                   poolClosed, workers, closed, closer, bestVoucher,
                   maxDiscount, ret, panicked, prev>>

\* receive the next result; mu.Lock()
Receive ==
    /\ ~panicked
    /\ pc = "range"
    /\ Len(resultChan) > 0
    /\ ~mu
    /\ result' = Head(resultChan)
    /\ resultChan' = Tail(resultChan)
    /\ mu' = TRUE
    /\ pc' = "locked"
    /\ consumed' = consumed (+) SetToBag({Head(resultChan)})
    /\ firstSeen' = IF Head(resultChan).Discount \in DOMAIN firstSeen
                    THEN firstSeen
                    ELSE firstSeen @@
                         (Head(resultChan).Discount :> Head(resultChan).Voucher)
    /\ UNCHANGED <<calc,
                   vouchers, orderAmount, ctxDone, poolCap, i, wg, slots,
                   poolClosed, workers, closed, closer, bestVoucher,
                   maxDiscount, ret, panicked, prev>>

\* compare and replace; mu.Unlock()
Update ==
    /\ ~panicked
    /\ pc = "locked"
    /\ IF Better(result.Discount, maxDiscount)
       THEN /\ maxDiscount' = result.Discount
            /\ bestVoucher' = result.Voucher
       ELSE UNCHANGED <<maxDiscount, bestVoucher>>
    /\ mu' = FALSE
    /\ result' = <<>>
    /\ pc' = "range"
    /\ UNCHANGED <<calc, consumed, firstSeen,
                   vouchers, orderAmount, ctxDone, poolCap, i, wg, slots,
                   poolClosed, workers, resultChan, closed, closer, ret,
                   panicked, prev>>

\* the range loop ends: resultChan is closed and drained
RangeEnds == pc = "range" /\ closed /\ Len(resultChan) = 0

\* return Voucher{}, 0, errors.New(...); deferred close(workerPool)
ReturnError ==
    /\ ~panicked
    /\ RangeEnds
    /\ NoWinner(maxDiscount)
    /\ ret' = [voucher |-> ZeroVoucher, discount |-> 0, err |-> ErrNoVoucher]
    /\ poolClosed' = TRUE
    /\ pc' = "done"
    /\ UNCHANGED <<calc, consumed, firstSeen,
                   vouchers, orderAmount, ctxDone, poolCap, i, wg, slots,
                   workers, resultChan, closed, closer, mu, result,
                   bestVoucher, maxDiscount, panicked, prev>>

\* return bestVoucher, maxDiscount, nil; deferred close(workerPool)
ReturnWinner ==
    /\ ~panicked
    /\ RangeEnds
    /\ ~NoWinner(maxDiscount)
    /\ ret' = [voucher |-> bestVoucher, discount |-> maxDiscount, err |-> ErrNil]
    /\ poolClosed' = TRUE
    /\ pc' = "done"
    /\ UNCHANGED <<calc, consumed, firstSeen,
                   vouchers, orderAmount, ctxDone, poolCap, i, wg, slots,
                   workers, resultChan, closed, closer, mu, result,
                   bestVoucher, maxDiscount, panicked, prev>>

(***************************************************************************)
(* The environment.                                                        *)
(***************************************************************************)
\* the caller's context is cancelled or its deadline passes during the call
CtxCancel ==
    /\ ~panicked
    /\ pc # "done"
    /\ ~ctxDone
    /\ ctxDone' = TRUE
    /\ UNCHANGED <<calc, consumed, firstSeen,
                   vouchers, orderAmount, poolCap, pc, i, wg, slots, poolClosed,
                   workers, resultChan, closed, closer, mu, result, bestVoucher,
                   maxDiscount, ret, panicked, prev>>

Step ==
    \/ Dispatch
    \/ StartCloser
    \/ \E w \in BagToSet(workers) : WorkerSend(w)
    \/ \E w \in BagToSet(workers) : WorkerSkip(w)
    \/ \E w \in BagToSet(workers) : WorkerRelease(w)
    \/ \E w \in BagToSet(workers) : WorkerDone(w)
    \/ CloseResults
    \/ Receive
    \/ Update
    \/ ReturnError
    \/ ReturnWinner

Next == Step \/ CtxCancel

Spec == Init /\ [][Next]_vars

\* the Go scheduler runs some runnable goroutine: a call that can step, steps
FairSpec == Init /\ [][Next]_vars /\ WF_vars(Step)

(***************************************************************************)
(* Calling findBestVoucher again on the same arguments: every local of the *)
(* call is created afresh; the outcome of the call before is remembered.   *)
(***************************************************************************)
RerunInit ==
    /\ vouchers \in VoucherLists
    /\ orderAmount \in OrderAmounts
    /\ ctxDone = FALSE
    /\ poolCap \in PoolCaps
    /\ prev = NoPrev
    /\ calc = NoCalc
    /\ Entry

CallAgain ==
    /\ pc = "done"
    /\ prev' = [ret |-> ret, poolCap |-> poolCap]
    /\ poolCap' \in PoolCaps
    /\ pc' = "dispatch"
    /\ i' = 1
    /\ wg' = 0
    /\ slots' = 0
    /\ poolClosed' = FALSE
    /\ workers' = EmptyBag
    /\ resultChan' = <<>>
    /\ closed' = FALSE
    /\ closer' = "idle"
    /\ mu' = FALSE
    /\ result' = <<>>
    /\ bestVoucher' = ZeroVoucher
    /\ maxDiscount' = 0
    /\ ret' = NoRet
    /\ consumed' = EmptyBag
    /\ firstSeen' = <<>>
    /\ UNCHANGED <<vouchers, orderAmount, ctxDone, panicked, calc>>

RerunNext == Step \/ CallAgain

RerunSpec == RerunInit /\ [][RerunNext]_vars

(***************************************************************************)
(* What the claims speak of.                                               *)
(***************************************************************************)
Score(v) == calculateDiscount(v, orderAmount)

\* positions of the candidates that calculateDiscount accepts
Eligible == {k \in 1..Len(vouchers) : Score(vouchers[k]).err = ErrNil}

\* the greatest score of an eligible candidate
MaxScore ==
    CHOOSE d \in {Score(vouchers[k]).discount : k \in Eligible} :
        \A k \in Eligible : Score(vouchers[k]).discount <= d

Returned == pc = "done"

\* worker goroutines that hold a slot
InFlight == CountAt({"eval", "release"})

\* C1: when some candidate is eligible, the call returns without error a
\* candidate of the list whose score is the greatest score of an eligible
\* candidate, together with that score.
C1_ReturnsMaxOfEligible ==
    (Returned /\ Eligible # {}) =>
        /\ ret.err = ErrNil
        /\ ret.discount = MaxScore
        /\ \E k \in Eligible :
              vouchers[k] = ret.voucher /\ Score(vouchers[k]).discount = MaxScore

\* C2: when no candidate is eligible (or the list is empty), the call returns
\* the error, the zero Voucher and score 0.
C2_NoEligibleIsError ==
    (Returned /\ Eligible = {}) =>
        ret = [voucher |-> ZeroVoucher, discount |-> 0, err |-> ErrNoVoucher]

\* a call over a rejected and a malformed candidate returned the error
C2_Witness ==
    /\ Returned
    /\ Eligible = {}
    /\ \E k \in 1..Len(vouchers) : Score(vouchers[k]).err = ErrMinimum
    /\ \E k \in 1..Len(vouchers) : Score(vouchers[k]).err = ErrConfig
    /\ ret.err = ErrNoVoucher

\* C3: the call returns an error only when no candidate was eligible.
C3_ErrorOnlyWhenNoneEligible ==
    (Returned /\ ret.err # ErrNil) => Eligible = {}

\* C4: at most 10 worker goroutines hold a slot, at most 10 slots are taken.
C4_AtMostCapInFlight ==
    /\ InFlight <= WorkerPoolCap
    /\ slots <= WorkerPoolCap

\* the pool is saturated while candidates are still waiting to be dispatched
C4_Witness ==
    /\ InFlight = WorkerPoolCap
    /\ pc = "dispatch"
    /\ i <= Len(vouchers)

\* C5: resultChan never holds more than len(vouchers) results, a worker whose
\* evaluation succeeded can always send, and a call that has not returned can
\* always take a step.
C5_SendNeverBlocks ==
    /\ Len(resultChan) <= Len(vouchers)
    /\ \A w \in BagToSet(workers) :
          (w.pc = "eval" /\ Score(w.v).err = ErrNil) => ENABLED WorkerSend(w)
    /\ ~Returned => ENABLED Step

\* every candidate's result is buffered before the reducer has started
C5_Witness ==
    /\ pc = "dispatch"
    /\ Len(vouchers) > WorkerPoolCap
    /\ Len(resultChan) = Len(vouchers)

\* C6: resultChan is closed only once every worker has called wg.Done, no
\* worker sends on the closed channel, and the call returns only after the
\* close.
C6_CloseAfterAllWorkers ==
    /\ closed => (wg = 0 /\ CountAt({"fin"}) = Len(vouchers))
    /\ ~panicked
    /\ Returned => closed

\* closed with results still buffered, after workers that sent and that skipped
C6_Witness ==
    /\ closed
    /\ pc = "range"
    /\ Len(resultChan) > 0
    /\ Len(resultChan) < Len(vouchers)
    /\ Len(vouchers) > WorkerPoolCap

\* C7: under fair scheduling every call returns, whether or not the context
\* is cancelled on the way.
C7_EventuallyReturns == <>Returned

\* a call over more candidates than slots returned after the context expired
C7_Witness ==
    /\ Returned
    /\ ctxDone
    /\ Len(vouchers) > WorkerPoolCap

\* C8: two calls on the same arguments end with the same error and the same
\* score; the winners differ only among candidates of exactly that score.
C8_SameOutcomeUpToTies ==
    (Returned /\ prev # NoPrev /\ prev.poolCap = poolCap) =>
        /\ ret.err = prev.ret.err
        /\ ret.discount = prev.ret.discount
        /\ ret.voucher # prev.ret.voucher =>
              \A w \in {ret.voucher, prev.ret.voucher} :
                  \E k \in Eligible :
                      vouchers[k] = w /\ Score(w).discount = ret.discount

\* the two calls picked different winners
C8_Witness ==
    /\ Returned
    /\ prev # NoPrev
    /\ prev.poolCap = poolCap
    /\ ret.voucher # prev.ret.voucher

\* C9: a call with one slot and a call with more slots end with the same
\* error and the same score.
C9_SameOutcomeAnyCap ==
    (Returned /\ prev # NoPrev /\ prev.poolCap = 1 /\ poolCap > 1) =>
        /\ ret.err = prev.ret.err
        /\ ret.discount = prev.ret.discount

C9_Witness ==
    /\ Returned
    /\ prev.poolCap = 1
    /\ poolCap = WorkerPoolCap
    /\ Len(vouchers) > WorkerPoolCap
    /\ ret.err = ErrNil

\* ctx.Err() of a cancelled or expired context, which the claim expects back
ErrContext == "context canceled"

\* C10: a call whose context was cancelled or expired before it completed
\* returns the context's error.
C10_CancelledIsError ==
    (Returned /\ ctxDone) => ret.err = ErrContext

\* the greatest element of a non-empty set of numbers
MaxOf(S) == CHOOSE d \in S : \A e \in S : e <= d

\* C11: the running best is replaced only by a strictly greater score: it is
\* always the first received result of its score, and the winner a call
\* returns is the first received result whose score is the greatest received.
C11_FirstOfMaxWins ==
    /\ maxDiscount > 0 =>
          /\ maxDiscount \in DOMAIN firstSeen
          /\ bestVoucher = firstSeen[maxDiscount]
    /\ (Returned /\ ret.err = ErrNil) =>
          /\ ret.discount = MaxOf(DOMAIN firstSeen)
          /\ ret.voucher = firstSeen[ret.discount]

\* two candidates tie and the later one of the list was received first and won
C11_Witness ==
    /\ Returned
    /\ ret.err = ErrNil
    /\ Len(vouchers) = 2
    /\ vouchers[1] # vouchers[2]
    /\ Score(vouchers[1]).discount = ret.discount
    /\ ret.voucher = vouchers[2]

(***************************************************************************)
(* calculateDiscount on its own: one call on one voucher and order amount. *)
(***************************************************************************)
CalcMins == {0, 100 * Unit, 333 * Unit, 1000 * Unit}
CalcAmounts ==
    {Null, Some(0), Some(Unit \div 2), Some(0 - (Unit \div 2)), Some(50 * Unit),
     Some(10 * Unit + (Unit \div 4))}
CalcPercentages == {Null, Some(0), Some(15), Some(20)}
CalcMaxima == {Null, Some(90 * Unit), Some(49 * Unit + (Unit \div 2))}
CalcOrderAmounts == {100 * Unit, 333 * Unit, MainOrderAmount, 99 * Unit + (Unit \div 2)}

CalcVouchers ==
    {MkVoucher(7, min, amount, pct, max) :
        min \in CalcMins, amount \in CalcAmounts,
        pct \in CalcPercentages, max \in CalcMaxima}

CalcInit ==
    /\ vouchers \in {<<v>> : v \in CalcVouchers}
    /\ orderAmount \in CalcOrderAmounts
    /\ ctxDone = FALSE
    /\ poolCap = WorkerPoolCap
    /\ prev = NoPrev
    /\ calc = NoCalc
    /\ Entry

\* discount, err := calculateDiscount(v, orderAmount)
Calculate ==
    /\ calc = NoCalc
    /\ calc' = calculateDiscount(vouchers[1], orderAmount)
    /\ UNCHANGED <<vouchers, orderAmount, ctxDone, poolCap, pc, i, wg, slots,
                   poolClosed, workers, resultChan, closed, closer, mu, result,
                   bestVoucher, maxDiscount, ret, panicked, prev, consumed,
                   firstSeen>>

CalcNext == Calculate

CalcSpec == CalcInit /\ [][CalcNext]_vars

\* the voucher of the lone call, once the call has returned
Calculated == calc # NoCalc
CalcVoucher == vouchers[1]
MeetsMinimum == orderAmount >= CalcVoucher.MinOrderAmount

\* d is the floor of the amount raw, raw counting 1/(100 * Unit)
IsFloorOf(d, raw) ==
    /\ d % Unit = 0
    /\ d * 100 <= raw
    /\ raw < (d + Unit) * 100

\* C12 as stated: an eligible candidate with a fixed amount scores exactly
\* that amount, whole or not.
C12_FlatIsUnaltered ==
    (Calculated /\ MeetsMinimum /\ CalcVoucher.DiscountAmount.Valid) =>
        /\ calc.err = ErrNil
        /\ calc.discount = CalcVoucher.DiscountAmount.Value

\* C12 as amended: an eligible candidate with a fixed amount scores the floor
\* of that amount, which is the amount itself when it is a whole number.
C12_FlatIsFloored ==
    (Calculated /\ MeetsMinimum /\ CalcVoucher.DiscountAmount.Valid) =>
        /\ calc.err = ErrNil
        /\ IsFloorOf(calc.discount, CalcVoucher.DiscountAmount.Value * 100)
        /\ CalcVoucher.DiscountAmount.Value % Unit = 0 =>
              calc.discount = CalcVoucher.DiscountAmount.Value

\* a fixed amount of 10.25 scored 10
C12_Witness ==
    /\ Calculated
    /\ CalcVoucher.DiscountAmount = Some(10 * Unit + (Unit \div 4))
    /\ calc = [discount |-> 10 * Unit, err |-> ErrNil]

\* the percentage of the order amount, clamped to the cap when there is one
\* and it is exceeded, counting 1/(100 * Unit)
ClampedPercentage ==
    LET share == orderAmount * CalcVoucher.DiscountPercentage.Value
        cap == CalcVoucher.MaxDiscountAmount.Value * 100
    IN  IF CalcVoucher.MaxDiscountAmount.Valid /\ cap < share THEN cap ELSE share

PercentageOnly ==
    /\ ~CalcVoucher.DiscountAmount.Valid
    /\ CalcVoucher.DiscountPercentage.Valid

\* C13: an eligible candidate with no fixed amount and a percentage p scores
\* floor(min(orderAmount * p / 100, cap)) with a cap and
\* floor(orderAmount * p / 100) without; order 500, 20% capped at 90 gives 90
\* and order 333, 15% uncapped gives 49.
C13_PercentageClampedThenFloored ==
    (Calculated /\ MeetsMinimum /\ PercentageOnly) =>
        /\ calc.err = ErrNil
        /\ IsFloorOf(calc.discount, ClampedPercentage)
        /\ (/\ orderAmount = 500 * Unit
            /\ CalcVoucher.DiscountPercentage = Some(20)
            /\ CalcVoucher.MaxDiscountAmount = Some(90 * Unit)) =>
               calc.discount = 90 * Unit
        /\ (/\ orderAmount = 333 * Unit
            /\ CalcVoucher.DiscountPercentage = Some(15)
            /\ CalcVoucher.MaxDiscountAmount = Null) =>
               calc.discount = 49 * Unit

\* 20% of 500 is 100, above the cap of 49.50: clamped, then floored to 49
C13_Witness ==
    /\ Calculated
    /\ PercentageOnly
    /\ orderAmount = 500 * Unit
    /\ CalcVoucher.DiscountPercentage = Some(20)
    /\ CalcVoucher.MaxDiscountAmount = Some(49 * Unit + (Unit \div 2))
    /\ calc = [discount |-> 49 * Unit, err |-> ErrNil]

\* C14: calculateDiscount returns an error, with score 0, exactly when the
\* order amount is strictly below the minimum or neither a fixed amount nor a
\* percentage is set; an order amount equal to the minimum is eligible.
C14_ErrorExactlyWhenRejected ==
    Calculated =>
        /\ calc.err # ErrNil <=>
              \/ orderAmount < CalcVoucher.MinOrderAmount
              \/ (~CalcVoucher.DiscountAmount.Valid
                  /\ ~CalcVoucher.DiscountPercentage.Valid)
        /\ calc.err # ErrNil => calc.discount = 0
        /\ calc.err \in {ErrNil, ErrMinimum, ErrConfig}

\* an order amount equal to the minimum was accepted
C14_Witness ==
    /\ Calculated
    /\ orderAmount = CalcVoucher.MinOrderAmount
    /\ orderAmount > 0
    /\ calc.err = ErrNil

(***************************************************************************)
(* Calling findBestVoucher again on the list without its ineligible and    *)
(* malformed candidates, the outcome of the call on the full list kept.    *)
(***************************************************************************)
\* below its minimum, or with neither a fixed amount nor a percentage
Rejected(v) ==
    \/ orderAmount < v.MinOrderAmount
    \/ (~v.DiscountAmount.Valid /\ ~v.DiscountPercentage.Valid)

Accepted(v) == ~Rejected(v)

CallEligibleOnly ==
    /\ pc = "done"
    /\ prev = NoPrev
    /\ \E k \in 1..Len(vouchers) : Rejected(vouchers[k])
    /\ prev' = [ret |-> ret, poolCap |-> poolCap]
    /\ vouchers' = SelectSeq(vouchers, Accepted)
    /\ pc' = "dispatch"
    /\ i' = 1
    /\ wg' = 0
    /\ slots' = 0
    /\ poolClosed' = FALSE
    /\ workers' = EmptyBag
    /\ resultChan' = <<>>
    /\ closed' = FALSE
    /\ closer' = "idle"
    /\ mu' = FALSE
    /\ result' = <<>>
    /\ bestVoucher' = ZeroVoucher
    /\ maxDiscount' = 0
    /\ ret' = NoRet
    /\ consumed' = EmptyBag
    /\ firstSeen' = <<>>
    /\ UNCHANGED <<orderAmount, ctxDone, poolCap, panicked, calc>>

FilterNext == Step \/ CallEligibleOnly

FilterSpec == Init /\ [][FilterNext]_vars

\* how often v stands in the list
Occurrences(v) == Cardinality({k \in 1..Len(vouchers) : vouchers[k] = v})

\* C15: the call over the list without its ineligible and malformed
\* candidates ends with the same error and score as the call over the full
\* list, and at the return of either call the result of every other
\* candidate has been received, once per occurrence in the list.
C15_RejectedCandidatesChangeNothing ==
    Returned =>
        /\ prev # NoPrev =>
              /\ ret.err = prev.ret.err
              /\ ret.discount = prev.ret.discount
        /\ \A k \in 1..Len(vouchers) :
              Accepted(vouchers[k]) =>
                  CopiesIn([Voucher |-> vouchers[k],
                            Discount |-> Score(vouchers[k]).discount], consumed)
                      = Occurrences(vouchers[k])

\* the call over the accepted candidates alone returned the winner
C15_Witness ==
    /\ Returned
    /\ prev # NoPrev
    /\ prev.ret.err = ErrNil
    /\ ret.err = ErrNil
    /\ Len(vouchers) >= 1

\* C16: a worker exists only with a slot taken for it by the dispatch loop,
\* holds exactly that one slot until its deferred release, on the early
\* return as well, and calls wg.Done only after the release.
C16_SlotHeldFromSpawnToRelease ==
    /\ BagCardinality(workers) = i - 1
    /\ slots = CountAt({"eval", "release"})
    /\ wg = CountAt({"eval", "release", "wgdone"})

\* a worker that took the early return has released and not yet called Done
C16_Witness ==
    /\ \E w \in BagToSet(workers) : w.pc = "wgdone" /\ Rejected(w.v)
    /\ wg > slots
    /\ slots > 0

\* the results handed to resultChan so far: buffered or received
Placed(r) ==
    Cardinality({j \in 1..Len(resultChan) : resultChan[j] = r})
        + CopiesIn(r, consumed)

\* worker goroutines of voucher v that are past their evaluation
Evaluated(v) ==
    CopiesIn(Worker(v, "release"), workers)
        + CopiesIn(Worker(v, "wgdone"), workers)
        + CopiesIn(Worker(v, "fin"), workers)

\* C17: resultChan is handed exactly one result per accepted candidate whose
\* evaluation is over and none for any other; the reducer receives each at
\* most once, and at the return it has received every one, the channel empty.
C17_ExactlyOnceHandOff ==
    /\ \A k \in 1..Len(vouchers) :
          LET v == vouchers[k]
              r == [Voucher |-> v, Discount |-> Score(v).discount]
          IN  /\ Placed(r) = IF Accepted(v) THEN Evaluated(v) ELSE 0
              /\ Placed(r) <= Occurrences(v)
              /\ Returned =>
                    CopiesIn(r, consumed) = IF Accepted(v) THEN Occurrences(v) ELSE 0
    /\ \A r \in BagToSet(consumed) \cup {resultChan[j] : j \in 1..Len(resultChan)} :
          \E k \in 1..Len(vouchers) :
              /\ r.Voucher = vouchers[k]
              /\ Accepted(vouchers[k])
              /\ r.Discount = Score(vouchers[k]).discount
    /\ Returned => Len(resultChan) = 0
    /\ pc = "locked" <=> result # <<>>
    /\ pc = "locked" => BagIn(result, consumed)

\* eleven candidates, ten skipped: the one result was received, then the return
C17_Witness ==
    /\ Returned
    /\ Len(vouchers) > WorkerPoolCap
    /\ BagCardinality(consumed) = 1

\* C18: the running best changes only in the compare-and-replace step, which
\* the calling goroutine alone performs, with mu held from the receive to the
\* end of the step; no step of a worker changes it.
C18_RunningBestUnderMutex ==
    /\ [](mu <=> pc = "locked")
    /\ [][(maxDiscount' # maxDiscount \/ bestVoucher' # bestVoucher) =>
             /\ mu
             /\ pc = "locked"
             /\ ~mu'
             /\ workers' = workers]_vars

\* the step replaces the running best while workers are still evaluating
C18_Witness ==
    /\ pc = "locked"
    /\ mu
    /\ CountAt({"eval"}) > 0
    /\ result.Discount > maxDiscount

\* C19: at the return every worker has finished, resultChan is closed and
\* empty and no slot is held, so workerPool is closed empty and no goroutine
\* is left to send to it or receive from it.
C19_AllQuietAtReturn ==
    /\ Returned =>
          /\ CountAt({"fin"}) = Len(vouchers)
          /\ closer = "fin"
          /\ closed
          /\ Len(resultChan) = 0
          /\ slots = 0
          /\ poolClosed
    /\ poolClosed =>
          /\ Returned
          /\ i > Len(vouchers)
          /\ CountAt({"eval", "release"}) = 0

C19_Witness ==
    /\ Returned
    /\ poolClosed
    /\ Len(vouchers) > WorkerPoolCap
    /\ ret.err = ErrNil

\* the received results the compare-and-replace step has been through
Folded == IF pc = "locked" THEN consumed (-) SetToBag({result}) ELSE consumed

FoldedScores == {r.Discount : r \in BagToSet(Folded)}

\* C20: between the steps of the range loop maxDiscount is the greatest of 0
\* and the scores received so far, and when it is above 0 bestVoucher is a
\* received candidate of exactly that score; maxDiscount never decreases
\* during a call, and every call starts from (Voucher{}, 0) whatever the call
\* before left.
C20_RunningBestInvariant ==
    /\ [](/\ maxDiscount = MaxOf({0} \cup FoldedScores)
          /\ maxDiscount > 0 =>
                \E r \in BagToSet(Folded) :
                    r.Voucher = bestVoucher /\ r.Discount = maxDiscount
          /\ maxDiscount = 0 => bestVoucher = ZeroVoucher
          /\ pc = "dispatch" => maxDiscount = 0)
    /\ [][pc # "done" => maxDiscount' >= maxDiscount]_vars
    /\ [][pc = "done" => (pc' = "done" \/ (maxDiscount' = 0 /\ bestVoucher' = ZeroVoucher))]_vars

\* in a second call, after a call that returned a winner, a lower score meets
\* the running best of this call
C20_Witness ==
    /\ prev # NoPrev
    /\ prev.ret.err = ErrNil
    /\ pc = "locked"
    /\ maxDiscount > 0
    /\ result.Discount < maxDiscount

====
